---- MODULE Spec2Model ----
(***************************************************************************)
(* Model of the partial-tile compactor (partial-aftersun: main, cleanDir,  *)
(* overrideImmutable, logSize) and of the two storage backends             *)
(* (LocalBackend, S3Backend) of the Sunlight log.                          *)
(*                                                                         *)
(* File names are sequences of one-character strings, paths are sequences  *)
(* of names (the components filepath.Join puts "/" between).               *)
(***************************************************************************)
EXTENDS Integers, Sequences, FiniteSets, TLC

VARIABLES
    \* ---- compactor (partial-aftersun) ----
    logs,          \* c.Logs: per log its descriptor/checkpoint facts and verified size
    fs,            \* per log: the directory tree under LocalDirectory, path -> node
    fs0,           \* per log: the tree as it was when the process started (history)
    ctxDone,       \* ctx.Err() != nil (signal.NotifyContext saw os.Interrupt)
    pc,            \* position of main: "logs", "levels", "walk", "exited"
    li,            \* index in c.Logs of the log being processed (0 before the first)
    levels,        \* fs.ReadDir(root.FS(), "tile") of the current log
    lv,            \* number of entries of levels already handed to cleanDir
    stack,         \* active cleanDir calls, outermost first
    exitCode,      \* main's exitCode, and the status os.Exit was called with
    removedFiles,  \* the package counters
    removedDirs,
    removedBytes,
    walkErr,       \* per log: the error that ended its pass ("none" if none)
    hist,          \* history of the run: see HistInit
    \* ---- storage backends (package ctlog) ----
    backend,       \* the Backend in use: "local" or "s3" ("none" in the compactor)
    mode,          \* "seq": Upload calls follow one another; "conc": they overlap
                   \* "race": one Upload to the bucket, whose caller may cancel
    immSupported,  \* immutable.Set can set the flag (OS support and privilege)
    lfile,         \* LocalBackend: the file at the key's path
    lcalls,        \* LocalBackend: the Upload calls, by number
    store,         \* S3Backend: the object at the key in the bucket
    reqs,          \* S3Backend: the PutObject requests issued so far
    ups,           \* S3Backend: the Upload calls so far, with their goroutines
    hedgeRequests, \* S3Backend: counter s3_hedges_total
    hedgeWins,     \* S3Backend: counter s3_hedges_successful_total
    ret,           \* the Upload calls that returned, in order: data and result
    fetched,       \* what the Fetch after the last Upload returned (<<>> if none)
    \* ---- the right-edge test of cleanDir taken by itself ----
    gate           \* its inputs (level, index, size) and, once computed, its result

varsB == <<backend, mode, immSupported, lfile, lcalls, store, reqs, ups,
           hedgeRequests, hedgeWins, ret, fetched>>

varsC == <<logs, fs, fs0, ctxDone, pc, li, levels, lv, stack, exitCode,
           removedFiles, removedDirs, removedBytes, walkErr, hist>>

-----------------------------------------------------------------------------
(* Strings *)

\* Byte values of the characters that occur in the names of the model.
Code ==
    [c \in {".", "0", "1", "2", "3", "5", "6", "a", "d", "e", "i", "l", "p", "t", "x"} |->
        CASE c = "." -> 46
          [] c = "0" -> 48 [] c = "1" -> 49 [] c = "2" -> 50 [] c = "3" -> 51
          [] c = "5" -> 53 [] c = "6" -> 54
          [] c = "a" -> 97 [] c = "d" -> 100 [] c = "e" -> 101 [] c = "i" -> 105
          [] c = "l" -> 108 [] c = "p" -> 112 [] c = "t" -> 116 [] c = "x" -> 120]

Digits == {"0", "1", "2", "3", "5", "6"}

\* s < t as Go compares strings (bytewise); fs.ReadDir sorts by this.
RECURSIVE StrLess(_, _)
StrLess(s, t) ==
    IF t = <<>> THEN FALSE
    ELSE IF s = <<>> THEN TRUE
    ELSE IF Code[Head(s)] # Code[Head(t)] THEN Code[Head(s)] < Code[Head(t)]
    ELSE StrLess(Tail(s), Tail(t))

\* strings.HasPrefix(s, "x")
HasPrefixX(s) == Len(s) >= 1 /\ s[1] = "x"

\* strings.HasSuffix(s, ".p")
HasSuffixP(s) == Len(s) >= 2 /\ s[Len(s) - 1] = "." /\ s[Len(s)] = "p"

\* strings.TrimSuffix(s, ".p"); with HasSuffixP it is strings.CutSuffix(s, ".p")
TrimSuffixP(s) == IF HasSuffixP(s) THEN SubSeq(s, 1, Len(s) - 2) ELSE s

AllDigits(s) == Len(s) >= 1 /\ \A i \in 1..Len(s) : s[i] \in Digits

\* strconv.Atoi on a string of decimal digits (AllDigits(s)).
RECURSIVE Atoi(_)
Atoi(s) ==
    IF s = <<>> THEN 0
    ELSE 10 * Atoi(SubSeq(s, 1, Len(s) - 1)) + (Code[s[Len(s)]] - 48)

\* The sequence holding the elements of the set S of names in ReadDir order.
RECURSIVE SortNames(_)
SortNames(S) ==
    IF S = {} THEN <<>>
    ELSE LET m == CHOOSE x \in S : \A y \in S \ {x} : StrLess(x, y)
         IN  <<m>> \o SortNames(S \ {m})

-----------------------------------------------------------------------------
(* Tile addressing (package sunlight) *)

TileHeight == 8
TileWidth == 256
PathBase == 1000

RECURSIVE Pow2(_)
Pow2(n) == IF n = 0 THEN 1 ELSE 2 * Pow2(n - 1)

NoTile == [ok |-> FALSE, L |-> 0, N |-> 0, W |-> 0]

\* The index the fan-out segments encode: "x"-prefixed three-digit segments,
\* then one plain three-digit segment; -1 when they are not the path of an index.
RECURSIVE ParseIndex(_, _)
ParseIndex(segs, acc) ==
    IF segs = <<>> THEN -1
    ELSE LET s == Head(segs)
             last == Len(segs) = 1
             d == IF last THEN s ELSE Tail(s)
         IN  IF (~last /\ ~HasPrefixX(s)) \/ Len(d) # 3 \/ ~AllDigits(d) THEN -1
             ELSE IF ~last /\ acc = 0 /\ Atoi(d) = 0 THEN -1
             ELSE IF last THEN acc * PathBase + Atoi(d)
             ELSE ParseIndex(Tail(segs), acc * PathBase + Atoi(d))

\* sunlight.ParseTilePath: tile/<L>/<N>[.p/<W>], tile/data/... for the data tiles.
ParseTilePath(path) ==
    IF Len(path) < 3 \/ path[1] # <<"t", "i", "l", "e">> THEN NoTile
    ELSE
    LET lev == path[2]
        isData == lev = <<"d", "a", "t", "a">>
        levOk == isData \/ (AllDigits(lev) /\ (Len(lev) = 1 \/ lev[1] # "0"))
        rest == SubSeq(path, 3, Len(path))
        partial == Len(rest) >= 2 /\ HasSuffixP(rest[Len(rest) - 1])
        wstr == rest[Len(rest)]
        wOk == AllDigits(wstr) /\ wstr[1] # "0" /\ Atoi(wstr) <= TileWidth
        segs == IF partial
                THEN SubSeq(rest, 1, Len(rest) - 2) \o <<TrimSuffixP(rest[Len(rest) - 1])>>
                ELSE rest
        n == ParseIndex(segs, 0)
    IN  IF ~levOk \/ (partial /\ ~wOk) \/ n < 0 THEN NoTile
        ELSE [ok |-> TRUE,
              L |-> IF isData THEN -1 ELSE Atoi(lev),
              N |-> n,
              W |-> IF partial THEN Atoi(wstr) ELSE TileWidth]

-----------------------------------------------------------------------------
(* The directory tree of one log *)

\* Names that occur in the trees of the model.
nTile == <<"t", "i", "l", "e">>
nData == <<"d", "a", "t", "a">>
nL0 == <<"0">>
nL1 == <<"1">>
nX001 == <<"x", "0", "0", "1">>
n000 == <<"0", "0", "0">>
n002 == <<"0", "0", "2">>
n003 == <<"0", "0", "3">>
nW1 == <<"1">>
nW2 == <<"2">>
nW256 == <<"2", "5", "6">>

DotP(name) == name \o <<".", "p">>

\* The directories every tree with a tile directory has.
TreeDirs ==
    { <<nTile>>, <<nTile, nL0>>, <<nTile, nL0, nX001>>, <<nTile, nL1>>, <<nTile, nData>> }

\* The places a tree of the model can hold a tile: the full tile at <<dir, base>>,
\* its partial group at <<dir, base.p>>. L and N are the coordinates the layout
\* tile/<L>/<N> gives that place (written out by hand, not parsed).
Slots ==
    { [dir |-> <<nTile, nL0>>,        base |-> n002, L |-> 0,  N |-> 2],
      [dir |-> <<nTile, nL0>>,        base |-> n003, L |-> 0,  N |-> 3],
      [dir |-> <<nTile, nL0, nX001>>, base |-> n000, L |-> 0,  N |-> 1000],
      [dir |-> <<nTile, nL1>>,        base |-> n000, L |-> 1,  N |-> 0],
      [dir |-> <<nTile, nData>>,      base |-> n003, L |-> -1, N |-> 3] }

KidNames == {nW1, nW2, nW256}

FullPath(s) == Append(s.dir, s.base)
GroupPath(s) == Append(s.dir, DotP(s.base))
KidPath(s, k) == Append(GroupPath(s), k)

Paths ==
    TreeDirs \cup {FullPath(s) : s \in Slots} \cup {GroupPath(s) : s \in Slots}
             \cup {KidPath(s, k) : s \in Slots, k \in KidNames}

NoNode == [kind |-> "none", size |-> 0, imm |-> FALSE]
DirNode == [kind |-> "dir", size |-> 1, imm |-> FALSE]
FileNode(n) == [kind |-> "file", size |-> n, imm |-> TRUE]

\* What one place holds: full is "none", "file" (a written tile), "empty" (a file of
\* size 0) or "dir"; grp is "none", "dir" (a partial group holding kids) or "file".
EmptySlot == [full |-> "none", grp |-> "none", kids |-> {}]
SlotConfigs ==
    { [full |-> "file",  grp |-> "dir",  kids |-> {nW1, nW2}],
      [full |-> "file",  grp |-> "dir",  kids |-> {}],
      [full |-> "file",  grp |-> "dir",  kids |-> {nW1, nW256}],
      [full |-> "file",  grp |-> "none", kids |-> {}],
      [full |-> "file",  grp |-> "file", kids |-> {}],
      [full |-> "none",  grp |-> "dir",  kids |-> {nW1}],
      [full |-> "none",  grp |-> "dir",  kids |-> {}],
      [full |-> "empty", grp |-> "dir",  kids |-> {nW1}],
      [full |-> "dir",   grp |-> "dir",  kids |-> {nW1}] }

\* The tree in which place s holds cfg[s].
Tree(cfg) ==
    [p \in Paths |->
        IF p \in TreeDirs THEN DirNode
        ELSE LET s == CHOOSE s \in Slots :
                        p = FullPath(s) \/ p = GroupPath(s)
                        \/ \E k \in KidNames : p = KidPath(s, k)
                 c == cfg[s]
             IN  IF p = FullPath(s)
                 THEN CASE c.full = "file" -> FileNode(2)
                        [] c.full = "empty" -> FileNode(0)
                        [] c.full = "dir" -> DirNode
                        [] OTHER -> NoNode
                 ELSE IF p = GroupPath(s)
                 THEN CASE c.grp = "dir" -> DirNode
                        [] c.grp = "file" -> FileNode(1)
                        [] OTHER -> NoNode
                 ELSE IF c.grp = "dir" /\ p[Len(p)] \in c.kids THEN FileNode(1)
                 ELSE NoNode]

\* A LocalDirectory without a tile directory.
NoTree == [p \in Paths |-> NoNode]

Exists(t, p) == p \in Paths /\ t[p].kind # "none"

\* The names of the entries of directory p.
Children(t, p) ==
    {q[Len(q)] : q \in {q \in Paths : Len(q) = Len(p) + 1 /\ SubSeq(q, 1, Len(p)) = p
                                       /\ t[q].kind # "none"}}

\* A listing that reports an error for a directory without entries.
ReadDir_noEmpty(t, p) ==
    IF Exists(t, p) /\ t[p].kind = "dir" /\ Children(t, p) # {}
    THEN [err |-> FALSE, entries |-> SortNames(Children(t, p))]
    ELSE [err |-> TRUE, entries |-> <<>>]

\* fs.ReadDir(root.FS(), p): the entries sorted by name, or an error.
ReadDir(t, p) ==
    IF Exists(t, p) /\ t[p].kind = "dir"
    THEN [err |-> FALSE, entries |-> SortNames(Children(t, p))]
    ELSE [err |-> TRUE, entries |-> <<>>]

\* root.Remove(p): removes a file that is not immutable, or an empty directory.
CanRemove(t, p) ==
    /\ Exists(t, p)
    /\ ~t[p].imm
    /\ t[p].kind = "dir" => Children(t, p) = {}

Remove(t, p) == [t EXCEPT ![p] = NoNode]

-----------------------------------------------------------------------------
(* Command partial-aftersun *)

NoErr == [kind |-> "none", path |-> <<>>]
Err(kind, path) == [kind |-> kind, path |-> path]

\* logSize: the size the signed checkpoint of log lg states, or an error when
\* log.v3.json cannot be read, the note does not verify or the origin differs.
logSize(lg) ==
    IF ~lg.desc THEN [err |-> "descriptor", n |-> 0]
    ELSE IF ~lg.sig THEN [err |-> "signature", n |-> 0]
    ELSE IF ~lg.origin THEN [err |-> "origin", n |-> 0]
    ELSE [err |-> "none", n |-> lg.N]

\* int64(1) << (sunlight.TileHeight * (max(0, t.L) + 1)), for the levels of the
\* trees of the model (tileSize64 is the value for every level).
tileSize(L) == Pow2(TileHeight * ((IF L > 0 THEN L ELSE 0) + 1))

\* The right-edge test written with > for >=.
EdgeSkip_strict(t, size) == t.N > size \div tileSize(t.L)

\* The right-edge test of cleanDir: t.N >= size/tileSize.
EdgeSkip(t, size) == t.N >= size \div tileSize(t.L)

\* The first level of safety left out.
hasFull_any(names, entry) == TRUE

\* The first level of safety: names[full] of the listing holds the stripped name.
hasFull(names, entry) == TrimSuffixP(entry) \in names

\* The third level of safety left out.
notPartial_never(t) == FALSE

\* The third level of safety: the entry parses as a tile of full width.
notPartial(t) == t.W = TileWidth

\* The position of the first component of path that ends in ".p" and is followed
\* by another component (the first ".p/" of the joined path); 0 if there is none.
CutP(path) ==
    LET I == {i \in 1..(Len(path) - 1) : HasSuffixP(path[i])}
    IN  IF I = {} THEN 0 ELSE CHOOSE i \in I : \A k \in I : i <= k

\* What root.Stat(full) found: the node at the path, NoNode for an error.
NoStat == [done |-> FALSE, full |-> <<>>, node |-> NoNode]
Stat(t, full) ==
    [done |-> TRUE, full |-> full, node |-> IF Exists(t, full) THEN t[full] ELSE NoNode]

\* overrideImmutable opening the full tile, not the partial, to clear the flag.
overrideImmutable_full(t, name) ==
    LET c == CutP(name)
        full == Append(SubSeq(name, 1, c - 1), TrimSuffixP(name[c]))
    IN  IF c = 0 \/ c + 1 # Len(name) \/ ~AllDigits(name[Len(name)])
        THEN [err |-> "override", fs |-> t, stat |-> NoStat]
        ELSE IF ~Exists(t, full) \/ t[full].kind = "dir" \/ t[full].size = 0
        THEN [err |-> "override", fs |-> t, stat |-> Stat(t, full)]
        ELSE [err |-> "none", fs |-> [t EXCEPT ![full].imm = FALSE],
              stat |-> Stat(t, full)]

\* overrideImmutable without its look at the full tile.
overrideImmutable_nostat(t, name) ==
    LET c == CutP(name)
    IN  IF c = 0 \/ c + 1 # Len(name) \/ ~AllDigits(name[Len(name)])
        THEN [err |-> "override", fs |-> t, stat |-> NoStat]
        ELSE IF ~Exists(t, name) THEN [err |-> "override", fs |-> t, stat |-> NoStat]
        ELSE [err |-> "none", fs |-> [t EXCEPT ![name].imm = FALSE], stat |-> NoStat]

\* overrideImmutable(root, name): the error it returns ("none" if none) and the
\* tree it leaves.
overrideImmutable(t, name) ==
    LET c == CutP(name)
        full == Append(SubSeq(name, 1, c - 1), TrimSuffixP(name[c]))
    IN  IF c = 0 THEN [err |-> "override", fs |-> t, stat |-> NoStat]
        ELSE IF c + 1 # Len(name) \/ ~AllDigits(name[Len(name)])
        THEN [err |-> "override", fs |-> t, stat |-> NoStat]
        ELSE IF ~Exists(t, full) \/ t[full].kind = "dir" \/ t[full].size = 0
        THEN [err |-> "override", fs |-> t, stat |-> Stat(t, full)]
        ELSE IF ~Exists(t, name)
        THEN [err |-> "override", fs |-> t, stat |-> Stat(t, full)]
        ELSE [err |-> "none", fs |-> [t EXCEPT ![name].imm = FALSE],
              stat |-> Stat(t, full)]

\* cleanDir without the check of ctx.Err().
cleanDirBegin_noCtx(t, prefix, done) ==
    LET rd == ReadDir(t, prefix)
    IN  IF rd.err THEN [err |-> "readdir", frame |-> <<>>]
        ELSE [err |-> "none",
              frame |-> [prefix |-> prefix, entries |-> rd.entries,
                         names |-> {rd.entries[k] : k \in 1..Len(rd.entries)},
                         i |-> 1, in |-> FALSE, partials |-> <<>>, j |-> 1,
                         late |-> done]]

\* The first statements of cleanDir(ctx, logger, root, prefix, size): the context
\* check and the listing. frame is the state of the call when it goes on.
cleanDirBegin(t, prefix, done) ==
    LET rd == ReadDir(t, prefix)
    IN  IF done THEN [err |-> "ctx", frame |-> <<>>]
        ELSE IF rd.err THEN [err |-> "readdir", frame |-> <<>>]
        ELSE [err |-> "none",
              frame |-> [prefix |-> prefix, entries |-> rd.entries,
                         names |-> {rd.entries[k] : k \in 1..Len(rd.entries)},
                         i |-> 1, in |-> FALSE, partials |-> <<>>, j |-> 1,
                         late |-> done]]

Top == stack[Len(stack)]
SetTop(f) == [stack EXCEPT ![Len(stack)] = f]

\* The record hist keeps of one root.Remove(path) that succeeded, made by the
\* cleanDir call f while it was at entry f.i of its listing.
Removal(f, path) ==
    [log |-> li, path |-> path, dir |-> f.prefix, idx |-> f.i, late |-> f.late,
     ctx |-> ctxDone, err |-> walkErr[li].kind]

\* An error returned by cleanDir goes up through every caller to main, which
\* logs it, sets exitCode and leaves the loop over the levels of this log.
Fail(kind, path) ==
    /\ stack' = <<>>
    /\ pc' = "logs"
    /\ exitCode' = 1
    /\ walkErr' = [walkErr EXCEPT ![li] = Err(kind, path)]

NoFail == UNCHANGED <<exitCode, walkErr>>

\* main, one turn of the loop over c.Logs up to the listing of the tile directory.
main_log ==
    /\ pc = "logs"
    /\ li < Len(logs)
    /\ li' = li + 1
    /\ LET lg == logs[li + 1]
           sz == logSize(lg)
           rd == ReadDir(fs[li + 1], <<nTile>>)
       IN  IF ~lg.short \/ ~lg.dir \/ sz.err # "none"
           THEN \* fatalError: os.Exit(1)
                /\ pc' = "exited"
                /\ exitCode' = 1
                /\ walkErr' = [walkErr EXCEPT ![li + 1] = Err(
                        IF ~lg.short \/ ~lg.dir THEN "config" ELSE sz.err, <<>>)]
                /\ UNCHANGED <<levels, lv>>
           ELSE IF rd.err
           THEN \* tile directory does not exist, skipping
                /\ UNCHANGED <<pc, exitCode, walkErr, levels, lv>>
           ELSE /\ levels' = rd.entries
                /\ lv' = 0
                /\ pc' = IF rd.entries = <<>> THEN "logs" ELSE "levels"
                /\ UNCHANGED <<exitCode, walkErr>>
    /\ hist' = [hist EXCEPT !.verified = @ \cup {li + 1}]
    /\ UNCHANGED <<logs, fs, fs0, ctxDone, stack, removedFiles, removedDirs, removedBytes>>
    /\ UNCHANGED varsB
    /\ UNCHANGED gate

\* main, one turn of the loop over the levels: the call of cleanDir.
main_level ==
    /\ pc = "levels"
    /\ lv < Len(levels)
    /\ lv' = lv + 1
    /\ LET b == cleanDirBegin(fs[li], <<nTile, levels[lv + 1]>>, ctxDone)
       IN  IF b.err # "none"
           THEN Fail(b.err, <<nTile, levels[lv + 1]>>)
           ELSE /\ stack' = <<b.frame>>
                /\ pc' = "walk"
                /\ NoFail
    /\ hist' = [hist EXCEPT !.calls = @ + 1, !.walked = @ \cup {li}]
    /\ UNCHANGED <<logs, fs, fs0, ctxDone, li, levels, removedFiles, removedDirs,
                   removedBytes>>
    /\ UNCHANGED varsB
    /\ UNCHANGED gate

\* cleanDir, one turn of the loop over the entries, up to the listing of a
\* partial group that passed the first two levels of safety.
cleanDir_entry ==
    /\ pc = "walk"
    /\ ~Top.in
    /\ Top.i <= Len(Top.entries)
    /\ LET f == Top
           entry == f.entries[f.i]
           name == Append(f.prefix, entry)
           skip == /\ stack' = SetTop([f EXCEPT !.i = @ + 1])
                   /\ NoFail
                   /\ UNCHANGED <<pc, hist>>
       IN  IF HasPrefixX(entry)
           THEN LET b == cleanDirBegin(fs[li], name, ctxDone)
                IN  /\ hist' = [hist EXCEPT !.calls = @ + 1]
                    /\ IF b.err # "none"
                       THEN Fail(b.err, name)
                       ELSE /\ stack' = Append(SetTop([f EXCEPT !.i = @ + 1]), b.frame)
                            /\ NoFail
                            /\ UNCHANGED pc
           ELSE IF ~HasSuffixP(entry) THEN skip
           ELSE IF ~hasFull(f.names, entry) THEN skip
           ELSE LET t == ParseTilePath(Append(f.prefix, TrimSuffixP(entry)))
                    rd == ReadDir(fs[li], name)
                IN  IF ~t.ok THEN Fail("parse", name) /\ UNCHANGED hist
                    ELSE IF EdgeSkip(t, logs[li].N) THEN skip
                    ELSE IF rd.err THEN Fail("readdir", name) /\ UNCHANGED hist
                    ELSE /\ stack' = SetTop([f EXCEPT !.in = TRUE,
                                                      !.partials = rd.entries, !.j = 1])
                         /\ NoFail
                         /\ UNCHANGED <<pc, hist>>
    /\ UNCHANGED <<logs, fs, fs0, ctxDone, li, levels, lv, removedFiles, removedDirs,
                   removedBytes>>
    /\ UNCHANGED varsB
    /\ UNCHANGED gate

\* The outcomes of partial.Info()/entry.Info() and of root.Remove that do not
\* follow from the tree: the call succeeds or the system reports an error.
IOOutcomes == {"ok", "infoErr", "removeErr"}

\* cleanDir, one turn of the loop over the entries of a partial group.
cleanDir_partial ==
    /\ pc = "walk"
    /\ Top.in
    /\ Top.j <= Len(Top.partials)
    /\ \E io \in IOOutcomes :
       LET f == Top
           name == Append(Append(f.prefix, f.entries[f.i]), f.partials[f.j])
           t == ParseTilePath(name)
           o == overrideImmutable(fs[li], name)
           seen0 == [hist EXCEPT !.seen = @ \cup {<<li, name>>}]
           seen == IF t.ok /\ ~notPartial(t)
                   THEN [seen0 EXCEPT !.overrides = @ \cup
                            {[log |-> li, path |-> name, stat |-> o.stat,
                              cleared |-> o.err = "none"]}]
                   ELSE seen0
       IN  IF ~t.ok
           THEN /\ Fail("parse", name)
                /\ hist' = seen
                /\ UNCHANGED <<fs, removedFiles, removedBytes>>
           ELSE IF notPartial(t)
           THEN /\ Fail("notpartial", name)
                /\ hist' = seen
                /\ UNCHANGED <<fs, removedFiles, removedBytes>>
           ELSE IF o.err # "none"
           THEN /\ Fail(o.err, name)
                /\ hist' = seen
                /\ UNCHANGED <<fs, removedFiles, removedBytes>>
           ELSE /\ removedFiles' = removedFiles + 1
                /\ IF io = "infoErr"
                   THEN /\ Fail("info", name)
                        /\ fs' = [fs EXCEPT ![li] = o.fs]
                        /\ hist' = seen
                        /\ UNCHANGED removedBytes
                   ELSE /\ removedBytes' = removedBytes + o.fs[name].size
                        /\ IF io = "removeErr" \/ ~CanRemove(o.fs, name)
                           THEN /\ Fail("remove", name)
                                /\ fs' = [fs EXCEPT ![li] = o.fs]
                                /\ hist' = seen
                           ELSE /\ fs' = [fs EXCEPT ![li] = Remove(o.fs, name)]
                                /\ stack' = SetTop([f EXCEPT !.j = @ + 1])
                                /\ hist' = [seen EXCEPT !.removals = @ \cup
                                        {Removal(f, name)}]
                                /\ NoFail
                                /\ UNCHANGED pc
    /\ UNCHANGED <<logs, fs0, ctxDone, li, levels, lv, removedDirs>>
    /\ UNCHANGED varsB
    /\ UNCHANGED gate

\* cleanDir, after the loop over a partial group: the removal of its directory.
cleanDir_dir ==
    /\ pc = "walk"
    /\ Top.in
    /\ Top.j > Len(Top.partials)
    /\ \E io \in IOOutcomes :
       LET f == Top
           name == Append(f.prefix, f.entries[f.i])
       IN  /\ removedDirs' = removedDirs + 1
           /\ IF io = "infoErr"
              THEN /\ Fail("info", name)
                   /\ UNCHANGED <<fs, removedBytes, hist>>
              ELSE /\ removedBytes' = removedBytes + fs[li][name].size
                   /\ IF io = "removeErr" \/ ~CanRemove(fs[li], name)
                      THEN /\ Fail("remove", name)
                           /\ UNCHANGED <<fs, hist>>
                      ELSE /\ fs' = [fs EXCEPT ![li] = Remove(fs[li], name)]
                           /\ stack' = SetTop([f EXCEPT !.in = FALSE, !.partials = <<>>,
                                                         !.j = 1, !.i = @ + 1])
                           /\ hist' = [hist EXCEPT !.removals = @ \cup
                                   {Removal(f, name)}]
                           /\ NoFail
                           /\ UNCHANGED pc
    /\ UNCHANGED <<logs, fs0, ctxDone, li, levels, lv, removedFiles>>
    /\ UNCHANGED varsB
    /\ UNCHANGED gate

\* cleanDir, after the loop over the entries: return nil, to the calling cleanDir
\* or to main, which goes on with the next level or the next log.
cleanDir_return ==
    /\ pc = "walk"
    /\ ~Top.in
    /\ Top.i > Len(Top.entries)
    /\ stack' = SubSeq(stack, 1, Len(stack) - 1)
    /\ pc' = IF Len(stack) > 1 THEN "walk"
             ELSE IF lv < Len(levels) THEN "levels" ELSE "logs"
    /\ UNCHANGED <<logs, fs, fs0, ctxDone, li, levels, lv, exitCode, removedFiles,
                   removedDirs, removedBytes, walkErr, hist>>
    /\ UNCHANGED varsB
    /\ UNCHANGED gate

\* main, after the loop over c.Logs: os.Exit(exitCode).
main_exit ==
    /\ pc = "logs"
    /\ li = Len(logs)
    /\ pc' = "exited"
    /\ UNCHANGED <<logs, fs, fs0, ctxDone, li, levels, lv, stack, exitCode, removedFiles,
                   removedDirs, removedBytes, walkErr, hist>>
    /\ UNCHANGED varsB
    /\ UNCHANGED gate

\* os.Interrupt arrives: the context of signal.NotifyContext is cancelled.
interrupt ==
    /\ pc # "exited"
    /\ ~ctxDone
    /\ ctxDone' = TRUE
    /\ hist' = [hist EXCEPT
                    !.cancelledIn = {<<li, stack[k].prefix>> : k \in 1..Len(stack)},
                    !.cancelledAt = IF stack = <<>> THEN <<>>
                                    ELSE <<li, Top.prefix, Top.i>>]
    /\ UNCHANGED <<logs, fs, fs0, pc, li, levels, lv, stack, exitCode, removedFiles,
                   removedDirs, removedBytes, walkErr>>
    /\ UNCHANGED varsB
    /\ UNCHANGED gate

-----------------------------------------------------------------------------
(* The right-edge test in the arithmetic of int64 *)

\* An int64 is held as its sign and the bytes of its magnitude, lowest first;
\* a number without bound as its bytes, lowest first.
WordBytes == 8

Max0(L) == IF L > 0 THEN L ELSE 0

RECURSIVE Norm(_)
Norm(d) == IF d # <<>> /\ d[Len(d)] = 0 THEN Norm(SubSeq(d, 1, Len(d) - 1)) ELSE d

RECURSIVE LeqFrom(_, _, _)
LeqFrom(a, b, i) ==
    IF i = 0 THEN TRUE
    ELSE IF a[i] # b[i] THEN a[i] < b[i]
    ELSE LeqFrom(a, b, i - 1)

\* a <= b for two numbers without bound.
NumLeq(a, b) ==
    LET na == Norm(a)
        nb == Norm(b)
    IN  IF Len(na) # Len(nb) THEN Len(na) < Len(nb) ELSE LeqFrom(na, nb, Len(na))

RECURSIVE Succ(_)
Succ(d) ==
    IF d = <<>> THEN <<1>>
    ELSE IF d[1] < 255 THEN <<d[1] + 1>> \o Tail(d)
    ELSE <<0>> \o Succ(Tail(d))

\* d * 256^k and d / 256^k (rounded down).
ShiftL(d, k) == [i \in 1..k |-> 0] \o d
ShiftR(d, k) == SubSeq(d, k + 1, Len(d))

\* The low 64 bits of d.
Wrap(d) == IF Len(d) > WordBytes THEN SubSeq(d, 1, WordBytes) ELSE d

\* int64(1) << (sunlight.TileHeight * (max(0, t.L) + 1)): the bits shifted beyond
\* bit 63 are lost. TileHeight is 8, so the shift moves whole bytes.
tileSize64(L) == Wrap(ShiftL(<<1>>, (TileHeight * (Max0(L) + 1)) \div 8))

\* size / ts in Go for ts = 256^k: the quotient is rounded towards zero.
GoDiv(size, ts) ==
    LET k == (CHOOSE i \in 1..Len(ts) : ts[i] = 1) - 1
        q == Norm(ShiftR(size.mag, k))
    IN  [neg |-> size.neg /\ q # <<>>, mag |-> q]

\* t.N >= size/tileSize as lines 143-144 compute it: panics is TRUE when the
\* division is one by zero (a run-time panic), skip is the value otherwise.
edgeGate(L, N, size) ==
    LET ts == tileSize64(L)
        q == GoDiv(size, ts)
    IN  IF Norm(ts) = <<>> THEN [panics |-> TRUE, skip |-> FALSE]
        ELSE [panics |-> FALSE, skip |-> q.neg \/ NumLeq(q.mag, N)]

NoGate == [L |-> 0, N |-> <<>>, size |-> [neg |-> FALSE, mag |-> <<>>],
           done |-> FALSE, res |-> [panics |-> FALSE, skip |-> FALSE]]

-----------------------------------------------------------------------------
(* Initial states of the compactor *)

MaxTiles == 2
MaxLogs == 2

\* Checkpoint sizes: 1000 puts tile 3 of level 0 at the right edge, 300000 puts
\* every place of the model to the left of it.
LogSizes == {1000, 300000}

GoodLog(n) ==
    [short |-> TRUE, dir |-> TRUE, desc |-> TRUE, sig |-> TRUE, origin |-> TRUE, N |-> n]

\* A configured log: well-formed, or with one defect.
LogKinds(n) ==
    { GoodLog(n),
      [GoodLog(n) EXCEPT !.short = FALSE],
      [GoodLog(n) EXCEPT !.desc = FALSE],
      [GoodLog(n) EXCEPT !.sig = FALSE],
      [GoodLog(n) EXCEPT !.origin = FALSE] }

TreeConfigs ==
    {cfg \in [Slots -> SlotConfigs \cup {EmptySlot}] :
        Cardinality({s \in Slots : cfg[s] # EmptySlot}) <= MaxTiles}

FirstSlot == CHOOSE s \in Slots : s.dir = <<nTile, nL0>> /\ s.base = n002

\* The trees of the runs over several logs: no tile directory, one removable
\* partial group, one group holding an entry of full width.
SmallTrees ==
    { NoTree,
      Tree([s \in Slots |-> IF s = FirstSlot
                            THEN [full |-> "file", grp |-> "dir", kids |-> {nW1, nW2}]
                            ELSE EmptySlot]),
      Tree([s \in Slots |-> IF s = FirstSlot
                            THEN [full |-> "file", grp |-> "dir", kids |-> {nW1, nW256}]
                            ELSE EmptySlot]) }

HistInit ==
    [calls |-> 0,           \* cleanDir calls made so far
     verified |-> {},       \* logs main has called logSize for
     walked |-> {},         \* logs main has called cleanDir for
     seen |-> {},           \* <<log, path>> of the group entries cleanDir has examined
     removals |-> {},       \* what root.Remove has removed
     overrides |-> {},      \* the calls of overrideImmutable and what they found
     cancelledIn |-> {},    \* <<log, prefix>> of the cleanDir calls active at the interrupt
     cancelledAt |-> <<>>]  \* <<log, prefix, i>>: the entry cleanDir was at, at the interrupt

InitC ==
    /\ \/ /\ \E n \in LogSizes : logs = <<GoodLog(n)>>
          /\ \E cfg \in TreeConfigs : fs = <<Tree(cfg)>>
       \/ \E k \in 2..MaxLogs :
            /\ logs \in [1..k -> LogKinds(300000)]
            /\ fs \in [1..k -> SmallTrees]
    /\ fs0 = fs
    /\ ctxDone = FALSE
    /\ pc = "logs"
    /\ li = 0
    /\ levels = <<>>
    /\ lv = 0
    /\ stack = <<>>
    /\ exitCode = 0
    /\ removedFiles = 0
    /\ removedDirs = 0
    /\ removedBytes = 0
    /\ walkErr = [l \in 1..Len(logs) |-> NoErr]
    /\ hist = HistInit

\* The compactor does not use the backends.
NoBackend ==
    /\ backend = "none"
    /\ mode = "seq"
    /\ immSupported = FALSE
    /\ lfile = [exists |-> FALSE, data |-> <<>>, imm |-> FALSE]
    /\ lcalls = <<>>
    /\ store = [exists |-> FALSE, data |-> <<>>]
    /\ reqs = <<>>
    /\ ups = <<>>
    /\ hedgeRequests = 0
    /\ hedgeWins = 0
    /\ ret = <<>>
    /\ fetched = <<>>

vars == <<varsC, varsB, gate>>

Init == InitC /\ NoBackend /\ gate = NoGate

Next ==
    \/ main_log
    \/ main_level
    \/ cleanDir_entry
    \/ cleanDir_partial
    \/ cleanDir_dir
    \/ cleanDir_return
    \/ main_exit
    \/ interrupt

Spec == Init /\ [][Next]_vars

-----------------------------------------------------------------------------
(* The storage backends: one key, the Upload calls made for it *)

MaxLen == 2
MaxCalls == 2

Bytes == {"a", "b"}

\* The values of data: the byte strings of at most MaxLen bytes.
Data == UNION {[1..n -> Bytes] : n \in 0..MaxLen}

Min(a, b) == IF a < b THEN a ELSE b

\* The compactor's variables while the backends are looked at.
NoCompactor ==
    /\ logs = <<>> /\ fs = <<>> /\ fs0 = <<>> /\ ctxDone = FALSE /\ pc = "exited"
    /\ li = 0 /\ levels = <<>> /\ lv = 0 /\ stack = <<>> /\ exitCode = 0
    /\ removedFiles = 0 /\ removedDirs = 0 /\ removedBytes = 0
    /\ walkErr = <<>> /\ hist = HistInit

\* An Upload call returned: res is "ok" (nil) or the kind of its error.
Returned(data, immutable, res) ==
    Append(ret, [data |-> data, immutable |-> immutable, res |-> res])

-----------------------------------------------------------------------------
(* LocalBackend *)

ReadBufMax == 16384

\* One turn of the loop of compareFile(f, data): blen is len(b), file the content
\* of f, off the offset f is at, rem what is left of data, n the number of bytes
\* f.Read(b) returned (with io.EOF when nothing is left to read).
\* The result is "ok" (return nil), "mismatch" (the error), "loop" (the next turn,
\* with off and rem) or "spin": f.Read of a buffer of length 0 returns 0, nil,
\* the turn changes nothing and is repeated for ever.
compareTurn(blen, file, off, rem, n) ==
    LET eof == blen > 0 /\ off = Len(file)
        rest == SubSeq(rem, n + 1, Len(rem))
    IN  IF n > Len(rem) \/ SubSeq(file, off + 1, off + n) # SubSeq(rem, 1, n)
        THEN [res |-> "mismatch", off |-> off, rem |-> rem]
        ELSE IF eof
        THEN [res |-> IF rest = <<>> THEN "ok" ELSE "mismatch", off |-> off, rem |-> rest]
        ELSE IF blen = 0
        THEN [res |-> "spin", off |-> off, rem |-> rest]
        ELSE [res |-> "loop", off |-> off + n, rem |-> rest]

\* The numbers of bytes one f.Read(b) can return.
ReadSizes(blen, file, off) ==
    IF blen = 0 \/ off = Len(file) THEN {0}
    ELSE 1..Min(blen, Len(file) - off)

LocalIdle == \A c \in DOMAIN lcalls : lcalls[c].st = "done"

\* LocalBackend.Upload up to os.Open(path): with Immutable and a file at the path
\* the call goes on to compareFile, otherwise to durable.WriteFile.
local_Upload ==
    /\ backend = "local"
    /\ Len(lcalls) < MaxCalls
    /\ mode = "seq" => LocalIdle
    /\ \E data \in Data, immutable \in BOOLEAN :
        lcalls' = Append(lcalls,
            [data |-> data, immutable |-> immutable,
             st |-> IF immutable /\ lfile.exists THEN "compare" ELSE "write",
             opened |-> immutable /\ lfile.exists,
             file |-> IF immutable /\ lfile.exists THEN lfile.data ELSE <<>>,
             off |-> 0, rem |-> data, res |-> "none",
             tick |-> 0])    \* the parity of the turns that changed nothing
    /\ fetched' = <<>>
    /\ UNCHANGED <<backend, mode, immSupported, lfile, store, reqs, ups,
                   hedgeRequests, hedgeWins, ret>>
    /\ UNCHANGED varsC
    /\ UNCHANGED gate

\* compareFile, one turn of its loop, and the return of Upload when it ends. A
\* call in state "spin" goes on taking the turn that changes nothing.
local_compareFile ==
    /\ backend = "local"
    /\ \E c \in DOMAIN lcalls :
        /\ lcalls[c].st \in {"compare", "spin"}
        /\ LET k == lcalls[c]
               blen == Min(Len(k.data), ReadBufMax)
           IN  \E n \in ReadSizes(blen, k.file, k.off) :
                LET t == compareTurn(blen, k.file, k.off, k.rem, n)
                IN  /\ lcalls' = [lcalls EXCEPT ![c] = [k EXCEPT
                            !.st = CASE t.res = "loop" -> "compare"
                                     [] t.res = "spin" -> "spin"
                                     [] OTHER -> "done",
                            !.off = t.off, !.rem = t.rem,
                            !.tick = IF t.res = "spin" THEN 1 - @ ELSE @,
                            !.res = IF t.res \in {"ok", "mismatch"} THEN t.res ELSE @]]
                    /\ ret' = IF t.res \in {"ok", "mismatch"}
                              THEN Returned(k.data, k.immutable, t.res) ELSE ret
    /\ UNCHANGED <<backend, mode, immSupported, lfile, store, reqs, ups,
                   hedgeRequests, hedgeWins, fetched>>
    /\ UNCHANGED varsC
    /\ UNCHANGED gate

\* durable.WriteFile(path, data, perms): the content goes to a fresh temporary
\* file which is renamed to the path; the rename fails on a file whose immutable
\* flag is set.
local_WriteFile ==
    /\ backend = "local"
    /\ \E c \in DOMAIN lcalls :
        /\ lcalls[c].st = "write"
        /\ LET k == lcalls[c]
           IN  IF lfile.exists /\ lfile.imm
               THEN /\ lcalls' = [lcalls EXCEPT ![c].st = "done", ![c].res = "ioerr"]
                    /\ ret' = Returned(k.data, k.immutable, "ioerr")
                    /\ UNCHANGED lfile
               ELSE /\ lfile' = [exists |-> TRUE, data |-> k.data, imm |-> FALSE]
                    /\ lcalls' = [lcalls EXCEPT
                            ![c].st = IF k.immutable THEN "setflag" ELSE "done",
                            ![c].res = IF k.immutable THEN "none" ELSE "ok"]
                    /\ ret' = IF k.immutable THEN ret
                              ELSE Returned(k.data, k.immutable, "ok")
    /\ UNCHANGED <<backend, mode, immSupported, store, reqs, ups,
                   hedgeRequests, hedgeWins, fetched>>
    /\ UNCHANGED varsC
    /\ UNCHANGED gate

\* The deferred function of an immutable Upload: immutable.Set, best effort.
local_setImmutable ==
    /\ backend = "local"
    /\ \E c \in DOMAIN lcalls :
        /\ lcalls[c].st = "setflag"
        /\ lfile' = [lfile EXCEPT !.imm = @ \/ immSupported]
        /\ lcalls' = [lcalls EXCEPT ![c].st = "done", ![c].res = "ok"]
        /\ ret' = Returned(lcalls[c].data, TRUE, "ok")
    /\ UNCHANGED <<backend, mode, immSupported, store, reqs, ups,
                   hedgeRequests, hedgeWins, fetched>>
    /\ UNCHANGED varsC
    /\ UNCHANGED gate

\* LocalBackend.Fetch: os.ReadFile(path), once every Upload call has returned.
local_Fetch ==
    /\ backend = "local"
    /\ LocalIdle
    /\ fetched = <<>>
    /\ fetched' = IF lfile.exists THEN <<"ok", lfile.data>> ELSE <<"notfound">>
    /\ UNCHANGED <<backend, mode, immSupported, lfile, lcalls, store, reqs, ups,
                   hedgeRequests, hedgeWins, ret>>
    /\ UNCHANGED varsC
    /\ UNCHANGED gate

-----------------------------------------------------------------------------
(* S3Backend *)

\* The data of the Upload calls to the bucket: the byte strings of one byte.
S3Data == {d \in Data : Len(d) = 1}

\* No Upload call is running (the goroutine of an earlier one may still be).
S3Idle == \A u \in DOMAIN ups : ups[u].main = "returned"

\* A PutObject request of Upload u: srv is what the store has done with it
\* ("pending", "applied", "failed"), cli whether PutObject has returned.
Request(u, who, data, srv) ==
    [up |-> u, who |-> who, data |-> data, srv |-> srv, cli |-> "waiting"]

\* S3Backend.Upload up to the call of putObject by the calling goroutine: the
\* derived context, the channel, the hedge goroutine and its timer are set up
\* and the primary request is issued.
s3_Upload ==
    /\ backend = "s3"
    /\ Len(ups) < MaxCalls
    /\ mode = "race" => ups = <<>>
    /\ S3Idle
    /\ \E data \in S3Data :
        /\ ups' = Append(ups,
              [data |-> data, main |-> "put", hedge |-> "select", ctx |-> FALSE,
               timer |-> FALSE, chan |-> <<>>, err |-> "none", herr |-> "none",
               hedged |-> 0, won |-> FALSE,
               \* what happened, for the properties:
               pctx |-> FALSE,     \* the caller's context was cancelled
               late |-> FALSE,     \* the timer fired with the primary outstanding
               perr |-> "none",    \* what the primary putObject returned
               first |-> "none",   \* the putObject that returned first
               from |-> "none",    \* the putObject whose result Upload returned
               cancels |-> 0,      \* calls of cancel
               kills |-> {}])      \* calls of cancel that ended the other attempt
        /\ reqs' = Append(reqs, Request(Len(ups) + 1, "primary", data, "pending"))
    /\ fetched' = <<>>
    /\ UNCHANGED <<backend, mode, immSupported, lfile, lcalls, store,
                   hedgeRequests, hedgeWins, ret>>
    /\ UNCHANGED varsC
    /\ UNCHANGED gate

\* 75 ms pass: timer.C of the hedge goroutine of an Upload becomes ready.
s3_timer ==
    /\ backend = "s3"
    /\ \E u \in DOMAIN ups :
        /\ ups[u].hedge = "select"
        /\ ~ups[u].timer
        /\ ups' = [ups EXCEPT ![u].timer = TRUE, ![u].late = (ups[u].main = "put")]
    /\ UNCHANGED <<backend, mode, immSupported, lfile, lcalls, store, reqs,
                   hedgeRequests, hedgeWins, ret, fetched>>
    /\ UNCHANGED varsC
    /\ UNCHANGED gate

\* The select of the hedge goroutine: <-ctx.Done() ends it, <-timer.C counts a
\* hedge and issues the second PutObject; with both ready either is taken. A
\* request issued under a context that is already cancelled is not sent.
s3_hedge_select ==
    /\ backend = "s3"
    /\ \E u \in DOMAIN ups :
        /\ ups[u].hedge = "select"
        /\ \/ /\ ups[u].ctx
              /\ ups' = [ups EXCEPT ![u].hedge = "done"]
              /\ UNCHANGED <<reqs, hedgeRequests>>
           \/ /\ ups[u].timer
              /\ hedgeRequests' = hedgeRequests + 1
              /\ reqs' = Append(reqs, Request(u, "hedge", ups[u].data,
                                    IF ups[u].ctx THEN "failed" ELSE "pending"))
              /\ ups' = [ups EXCEPT ![u].hedge = "put", ![u].hedged = @ + 1]
    /\ UNCHANGED <<backend, mode, immSupported, lfile, lcalls, store,
                   hedgeWins, ret, fetched>>
    /\ UNCHANGED varsC
    /\ UNCHANGED gate

\* The store carries out a request: the object at the key becomes its body.
s3_store_put ==
    /\ backend = "s3"
    /\ \E r \in DOMAIN reqs :
        /\ reqs[r].srv = "pending"
        /\ reqs' = [reqs EXCEPT ![r].srv = "applied"]
        /\ store' = [exists |-> TRUE, data |-> reqs[r].data]
    /\ UNCHANGED <<backend, mode, immSupported, lfile, lcalls, ups,
                   hedgeRequests, hedgeWins, ret, fetched>>
    /\ UNCHANGED varsC
    /\ UNCHANGED gate

\* A request fails for good (after the retries) without reaching the object.
s3_store_fail ==
    /\ backend = "s3"
    /\ \E r \in DOMAIN reqs :
        /\ reqs[r].srv = "pending"
        /\ reqs[r].cli = "waiting"
        /\ reqs' = [reqs EXCEPT ![r].srv = "failed"]
    /\ UNCHANGED <<backend, mode, immSupported, lfile, lcalls, store, ups,
                   hedgeRequests, hedgeWins, ret, fetched>>
    /\ UNCHANGED varsC
    /\ UNCHANGED gate

\* The errors s.client.PutObject can return for request q now: nil ("ok") once
\* the store has carried it out, "error" once it has failed, the context's error
\* once the context of its Upload is cancelled (whatever the store has done or
\* will do with what was sent).
PutResults(q) ==
    (IF q.srv = "applied" THEN {"ok"} ELSE {})
    \cup (IF q.srv = "failed" THEN {"error"} ELSE {})
    \cup (IF ups[q.up].ctx THEN {"ctxerr"} ELSE {})

\* putObject returns in the calling goroutine (line 175) or in the hedge
\* goroutine (line 169).
s3_putObject_return ==
    /\ backend = "s3"
    /\ \E r \in DOMAIN reqs :
        /\ reqs[r].cli = "waiting"
        /\ \E e \in PutResults(reqs[r]) :
            /\ reqs' = [reqs EXCEPT ![r].cli = "returned"]
            /\ ups' = IF reqs[r].who = "primary"
                      THEN [ups EXCEPT ![reqs[r].up].main = "select",
                                       ![reqs[r].up].err = e,
                                       ![reqs[r].up].perr = e,
                                       ![reqs[r].up].first =
                                            IF @ = "none" THEN "primary" ELSE @]
                      ELSE [ups EXCEPT ![reqs[r].up].hedge = "send",
                                       ![reqs[r].up].herr = e,
                                       ![reqs[r].up].first =
                                            IF @ = "none" THEN "hedge" ELSE @]
    /\ UNCHANGED <<backend, mode, immSupported, lfile, lcalls, store,
                   hedgeRequests, hedgeWins, ret, fetched>>
    /\ UNCHANGED varsC
    /\ UNCHANGED gate

\* A channel made without a buffer, when nothing is waiting to receive from it.
canSend_unbuffered(chan) == FALSE

\* A send on hedgeErr, made with room for one value, goes through at once.
canSend(chan) == Len(chan) < 1

\* The hedge goroutine: hedgeErr <- err.
s3_hedge_send ==
    /\ backend = "s3"
    /\ \E u \in DOMAIN ups :
        /\ ups[u].hedge = "send"
        /\ canSend(ups[u].chan)
        /\ ups' = [ups EXCEPT ![u].chan = Append(@, ups[u].herr),
                              ![u].hedge = "cancel"]
    /\ UNCHANGED <<backend, mode, immSupported, lfile, lcalls, store, reqs,
                   hedgeRequests, hedgeWins, ret, fetched>>
    /\ UNCHANGED varsC
    /\ UNCHANGED gate

\* Upload u has a putObject of who ("primary", "hedge") that has not returned.
Outstanding(u, who) ==
    \E r \in DOMAIN reqs :
        reqs[r].up = u /\ reqs[r].who = who /\ reqs[r].cli = "waiting"

\* What a call of cancel by the goroutine that got err from its putObject adds to
\* kills: the call cancels the attempt of the other goroutine if that is still
\* outstanding and the context was not done before.
Kill(u, by, other, err) ==
    IF ~ups[u].ctx /\ Outstanding(u, other)
    THEN {[by |-> by, err |-> err]} ELSE {}

\* The hedge goroutine: cancel(errors.New("competing request succeeded")).
s3_hedge_cancel ==
    /\ backend = "s3"
    /\ \E u \in DOMAIN ups :
        /\ ups[u].hedge = "cancel"
        /\ ups' = [ups EXCEPT ![u].ctx = TRUE, ![u].hedge = "done",
                              ![u].cancels = @ + 1,
                              ![u].kills = @ \cup Kill(u, "hedge", "primary",
                                                       ups[u].herr)]
    /\ UNCHANGED <<backend, mode, immSupported, lfile, lcalls, store, reqs,
                   hedgeRequests, hedgeWins, ret, fetched>>
    /\ UNCHANGED varsC
    /\ UNCHANGED gate

\* The select with the hedge win counted in the default case as well.
mainSelect_count(k) ==
    IF k.chan # <<>>
    THEN [recv |-> TRUE, win |-> 1, err |-> k.chan[1], from |-> "hedge"]
    ELSE [recv |-> FALSE, win |-> 1, err |-> k.err, from |-> "primary"]

\* The select of the calling goroutine on hedgeErr with its default: whether a
\* value was received, what is added to the hedge wins, the error Upload goes on
\* with and the putObject it came from.
mainSelect(k) ==
    IF k.chan # <<>>
    THEN [recv |-> TRUE, win |-> 1, err |-> k.chan[1], from |-> "hedge"]
    ELSE [recv |-> FALSE, win |-> 0, err |-> k.err, from |-> "primary"]

\* The calling goroutine after putObject: the select on hedgeErr with its
\* default (which calls cancel), and the return of Upload.
s3_main_select ==
    /\ backend = "s3"
    /\ \E u \in DOMAIN ups :
        /\ ups[u].main = "select"
        /\ LET k == ups[u]
               sel == mainSelect(k)
           IN  /\ hedgeWins' = hedgeWins + sel.win
               /\ ups' = IF sel.recv
                         THEN [ups EXCEPT ![u].chan = <<>>, ![u].err = sel.err,
                                          ![u].won = (sel.win = 1),
                                          ![u].from = sel.from,
                                          ![u].main = "returned"]
                         ELSE [ups EXCEPT ![u].ctx = TRUE, ![u].main = "returned",
                                          ![u].won = (sel.win = 1),
                                          ![u].from = sel.from,
                                          ![u].cancels = @ + 1,
                                          ![u].kills = @ \cup Kill(u, "primary",
                                                                   "hedge", k.err)]
               /\ ret' = Returned(k.data, FALSE, sel.err)
    /\ UNCHANGED <<backend, mode, immSupported, lfile, lcalls, store, reqs,
                   hedgeRequests, fetched>>
    /\ UNCHANGED varsC
    /\ UNCHANGED gate

\* The context of the caller of Upload is cancelled while the call is running:
\* the context derived from it is done as well.
s3_caller_cancel ==
    /\ backend = "s3"
    /\ \E u \in DOMAIN ups :
        /\ mode = "race"
        /\ ups[u].main # "returned"
        /\ ~ups[u].ctx
        /\ ups' = [ups EXCEPT ![u].ctx = TRUE, ![u].pctx = TRUE]
    /\ UNCHANGED <<backend, mode, immSupported, lfile, lcalls, store, reqs,
                   hedgeRequests, hedgeWins, ret, fetched>>
    /\ UNCHANGED varsC
    /\ UNCHANGED gate

\* S3Backend.Fetch: GetObject and io.ReadAll, once every Upload call has returned.
s3_Fetch ==
    /\ backend = "s3"
    /\ S3Idle
    /\ fetched = <<>>
    /\ fetched' = IF store.exists THEN <<"ok", store.data>> ELSE <<"notfound">>
    /\ UNCHANGED <<backend, mode, immSupported, lfile, lcalls, store, reqs, ups,
                   hedgeRequests, hedgeWins, ret>>
    /\ UNCHANGED varsC
    /\ UNCHANGED gate

-----------------------------------------------------------------------------
(* The backends as a system *)

InitBackend ==
    /\ NoCompactor
    /\ gate = NoGate
    /\ \/ backend = "local" /\ mode \in {"seq", "conc"} /\ immSupported \in BOOLEAN
       \/ backend = "s3" /\ mode \in {"seq", "race"} /\ immSupported = FALSE
    /\ lfile = [exists |-> FALSE, data |-> <<>>, imm |-> FALSE]
    /\ lcalls = <<>>
    /\ store = [exists |-> FALSE, data |-> <<>>]
    /\ reqs = <<>>
    /\ ups = <<>>
    /\ hedgeRequests = 0
    /\ hedgeWins = 0
    /\ ret = <<>>
    /\ fetched = <<>>

NextBackend ==
    \/ local_Upload
    \/ local_compareFile
    \/ local_WriteFile
    \/ local_setImmutable
    \/ local_Fetch
    \/ s3_Upload
    \/ s3_timer
    \/ s3_hedge_select
    \/ s3_store_put
    \/ s3_store_fail
    \/ s3_putObject_return
    \/ s3_hedge_send
    \/ s3_hedge_cancel
    \/ s3_main_select
    \/ s3_caller_cancel
    \/ s3_Fetch

SpecBackend == InitBackend /\ [][NextBackend]_vars

\* One Upload to the bucket with the scheduling of its two goroutines: a goroutine
\* that can take a step takes it, the timer fires, and the store answers every
\* request it has.
InitHedge == InitBackend /\ backend = "s3" /\ mode = "race"

NextHedge ==
    \/ s3_Upload
    \/ s3_timer
    \/ s3_hedge_select
    \/ s3_store_put
    \/ s3_store_fail
    \/ s3_putObject_return
    \/ s3_hedge_send
    \/ s3_hedge_cancel
    \/ s3_main_select
    \/ s3_caller_cancel
    \/ s3_Fetch

SpecHedge ==
    /\ InitHedge
    /\ [][NextHedge]_vars
    /\ WF_vars(s3_timer)
    /\ WF_vars(s3_hedge_select)
    /\ WF_vars(s3_store_put)
    /\ WF_vars(s3_putObject_return)
    /\ WF_vars(s3_hedge_send)
    /\ WF_vars(s3_hedge_cancel)
    /\ WF_vars(s3_main_select)

-----------------------------------------------------------------------------
(* Properties of the compactor *)

LogIds == DOMAIN fs

\* Place s of log l held a full tile and a partial group with entries at the start.
HadTileAndGroup(l, s) ==
    /\ fs0[l][FullPath(s)].kind = "file"
    /\ fs0[l][FullPath(s)].size > 0
    /\ fs0[l][GroupPath(s)].kind = "dir"
    /\ \E k \in KidNames : Exists(fs0[l], KidPath(s, k))

\* The partial group of place s of log l is gone.
GroupGone(l, s) == Exists(fs0[l], GroupPath(s)) /\ ~Exists(fs[l], GroupPath(s))

\* The tile of place s is at or beyond the right edge of a tree of that size:
\* N_tile >= size / 2^(8(L+1)), the data tiles counting as level 0.
AtEdge(s, size) == s.N >= size \div (256 ^ ((IF s.L < 0 THEN 0 ELSE s.L) + 1))

\* C1: the partial files, and the group directory, of a tile with
\* N_tile >= size / tileSize(L) are never removed, whatever the tree holds and
\* even when the full tile of the same name is there.
C1_EdgeTileKept ==
    \A l \in LogIds : \A s \in Slots :
        AtEdge(s, logs[l].N) =>
            /\ Exists(fs0[l], GroupPath(s)) => Exists(fs[l], GroupPath(s))
            /\ \A k \in KidNames :
                 Exists(fs0[l], KidPath(s, k)) => Exists(fs[l], KidPath(s, k))

\* C1 happens: size 1000, the pass is over, tile 3 of level 0 has its full tile
\* and its partials, and the partial group of tile 2 was removed.
C1_Witness ==
    /\ pc = "exited"
    /\ logs[1].N = 1000
    /\ \E s, e \in Slots :
        /\ s.L = 0 /\ s.N = 2 /\ GroupGone(1, s)
        /\ e.L = 0 /\ e.N = 3 /\ HadTileAndGroup(1, e)
        /\ \E k \in KidNames : Exists(fs[1], KidPath(e, k))

\* An entry the compactor may remove: a partial group directory (a name ending in
\* ".p") or a file directly inside one.
InGroup(t, p) ==
    \/ HasSuffixP(p[Len(p)])
    \/ Len(p) >= 2 /\ HasSuffixP(p[Len(p) - 1]) /\ t[p].kind = "file"

\* C2: whatever the walk has done so far, and however it ends, every entry that is
\* neither a ".p" directory nor a file directly inside one is as it was at the
\* start: full tiles are never removed nor changed.
C2_OnlyPartialsRemoved ==
    \A l \in LogIds : \A p \in Paths :
        ~InGroup(fs0[l], p) => fs[l][p] = fs0[l][p]

\* C2 happens: a pass that removed a partial and then ended in an error.
C2_Witness ==
    /\ pc = "exited"
    /\ \E l \in LogIds :
        /\ walkErr[l].kind \in {"info", "remove", "notpartial", "override", "ctx"}
        /\ \E r \in hist.removals : r.log = l
        /\ \E s \in Slots : fs[l][FullPath(s)].kind = "file"

\* C3: a partial group whose stripped name is no entry of the same directory is
\* left as it was: the directory, its files and their immutable flags.
C3_NoSiblingUntouched ==
    \A l \in LogIds : \A s \in Slots :
        ~Exists(fs0[l], FullPath(s)) =>
            /\ fs[l][GroupPath(s)] = fs0[l][GroupPath(s)]
            /\ \A k \in KidNames : fs[l][KidPath(s, k)] = fs0[l][KidPath(s, k)]

\* C3 happens: the pass is over without error, it removed the group of one place
\* of a directory and left the group without full tile of another place of that
\* directory.
C3_Witness ==
    /\ pc = "exited"
    /\ walkErr[1] = NoErr
    /\ \E s, u \in Slots :
        /\ s.dir = u.dir
        /\ GroupGone(1, s)
        /\ ~Exists(fs0[1], FullPath(u))
        /\ Exists(fs[1], GroupPath(u))

\* C4: an entry of a ".p" group that parses with W = TileWidth is never removed;
\* once cleanDir has examined it the pass of that log has ended with the error
\* "is not a partial tile" naming it, and nothing is removed in that log after
\* the error.
C4_FullWidthAborts ==
    /\ \A l \in LogIds : \A s \in Slots :
         fs[l][KidPath(s, nW256)] = fs0[l][KidPath(s, nW256)]
    /\ \A x \in hist.seen :
         x[2][Len(x[2])] = nW256 => walkErr[x[1]] = Err("notpartial", x[2])
    /\ \A r \in hist.removals : r.err = "none"
    /\ \A l \in LogIds :
         walkErr[l].kind = "notpartial" =>
            /\ l < li \/ pc \in {"logs", "exited"}
            /\ \A r \in hist.removals : r.log = l => Exists(fs0[l], walkErr[l].path)

\* C4 happens: a group held "1" and "256"; "1" was removed, then the pass ended
\* with the error and "256" is still there.
C4_Witness ==
    \E l \in LogIds : \E s \in Slots :
        /\ walkErr[l] = Err("notpartial", KidPath(s, nW256))
        /\ Exists(fs[l], KidPath(s, nW256))
        /\ ~Exists(fs[l], KidPath(s, nW1)) /\ Exists(fs0[l], KidPath(s, nW1))

Counters == <<removedFiles, removedDirs, removedBytes>>

\* C5: a cleanDir call made when the context is already cancelled removes nothing,
\* clears no immutable flag, leaves the counters alone and returns the error of
\* the context.
C5_CancelledCallDoesNothing ==
    [][(ctxDone /\ hist'.calls > hist.calls) =>
            /\ fs' = fs
            /\ Counters' = Counters
            /\ stack' = <<>>
            /\ walkErr'[li].kind = "ctx"]_vars

\* C5 happens: the interrupt came before the first cleanDir call of a log with a
\* removable partial group; the call returned the context's error.
C5_Witness ==
    /\ walkErr[1].kind = "ctx"
    /\ hist.calls = 1
    /\ hist.removals = {}
    /\ \E s \in Slots : HadTileAndGroup(1, s) /\ ~AtEdge(s, logs[1].N)

\* C6 as claimed: after the interrupt nothing is removed but in the entry cleanDir
\* was at when the interrupt came.
C6_StopsBetweenEntries ==
    \A r \in hist.removals :
        r.ctx => <<r.log, r.dir, r.idx>> = hist.cancelledAt

\* C6 as the code has it: the context is looked at only where a cleanDir call
\* begins. After the interrupt no further directory is entered (the next call
\* returns the context's error), so whatever is removed after it is removed by a
\* call that was already running when it came.
C6_StopsAtNextCall ==
    /\ \A r \in hist.removals :
         r.ctx => ~r.late /\ <<r.log, r.dir>> \in hist.cancelledIn
    /\ \A k \in 1..Len(stack) : ~stack[k].late

\* C6 happens: the interrupt came during the walk of a directory, a group of a
\* later entry of that directory was removed after it, and the walk then ended
\* with the context's error at the next call.
C6_Witness ==
    /\ walkErr[1].kind = "ctx"
    /\ \E r \in hist.removals : r.ctx /\ <<r.log, r.dir, r.idx>> # hist.cancelledAt
    /\ \E s \in Slots : s.dir = walkErr[1].path /\ HadTileAndGroup(1, s)
                        /\ Exists(fs[1], GroupPath(s))

\* Log l failed: its checkpoint or descriptor was refused, or its walk returned
\* an error.
Failed(l) == walkErr[l].kind # "none"

\* C7: when the process has exited, every log after a failed one has been
\* processed, and the exit status is not zero if a log failed.
C7_FailuresIsolated ==
    pc = "exited" =>
        /\ \A l \in LogIds : (\E k \in 1..(l - 1) : Failed(k)) => l \in hist.verified
        /\ (\E l \in LogIds : Failed(l)) => exitCode # 0

-----------------------------------------------------------------------------
(* Properties of the backends *)

AllImmutable == \A c \in DOMAIN lcalls : lcalls[c].immutable

\* C8: Upload calls with Immutable, one after another. A call that finds the file
\* with the bytes of its data succeeds, one that finds other bytes returns the
\* mismatch error, and the file keeps the bytes it had; whatever data is. (A call
\* in the state "spin" loops in compareFile and never returns.)
C8_ImmutableRewrite ==
    (mode = "seq" /\ AllImmutable) =>
        \A c \in DOMAIN lcalls :
            LET k == lcalls[c]
            IN  (k.opened /\ k.st \in {"done", "spin"}) =>
                    /\ k.res = IF k.data = k.file THEN "ok" ELSE "mismatch"
                    /\ lfile.exists /\ lfile.data = k.file

\* C9: Upload calls with Immutable that may overlap. Once a call has returned
\* success with content d the file holds d from then on, and no call with other
\* content returns success.
C9_ImmutableOnceWritten ==
    AllImmutable =>
        \A c \in DOMAIN lcalls :
            (lcalls[c].st = "done" /\ lcalls[c].res = "ok") =>
                /\ lfile.exists /\ lfile.data = lcalls[c].data
                /\ \A d \in DOMAIN lcalls :
                     (lcalls[d].st = "done" /\ lcalls[d].res = "ok")
                        => lcalls[d].data = lcalls[c].data

\* The data of the last Upload call that returned success.
LastOk ==
    LET I == {i \in DOMAIN ret : ret[i].res = "ok"}
    IN  ret[CHOOSE i \in I : \A k \in I : k <= i].data

\* C10: Upload calls one after another, all returned; the Fetch after them
\* returns the data of the last Upload that succeeded. In the bucket a request
\* that lost the race of an earlier Upload may still be carried out.
C10_RoundTrip ==
    (mode = "seq" /\ fetched # <<>> /\ \E i \in DOMAIN ret : ret[i].res = "ok")
        => fetched = <<"ok", LastOk>>

-----------------------------------------------------------------------------
(* Properties of the hedged Upload to the bucket *)

\* The primary putObject of Upload u returned before the timer fired.
PrimaryFast(u) == ups[u].main # "put" /\ ~ups[u].late

\* C11: when the primary PutObject returns before the hedge timer fires, no
\* second PutObject is issued for that Upload and the counter of hedge requests
\* is not incremented for it, whatever the order of the steps of the two
\* goroutines.
C11_NoHedgeWhenPrimaryFast ==
    \A u \in DOMAIN ups :
        PrimaryFast(u) =>
            /\ ups[u].hedged = 0
            /\ ~\E r \in DOMAIN reqs : reqs[r].up = u /\ reqs[r].who = "hedge"

\* Upload u and its hedge goroutine have come to their end.
Finished(u) == ups[u].main = "returned" /\ ups[u].hedge = "done"

\* The hedge requests issued for the Uploads 1..n.
RECURSIVE HedgedUpTo(_)
HedgedUpTo(n) == IF n = 0 THEN 0 ELSE HedgedUpTo(n - 1) + ups[n].hedged

\* What Upload u returned is the result of one of its putObject calls, and the
\* hedge win was counted exactly if it is that of the hedge.
OneResult(u) ==
    ups[u].main = "returned" =>
        /\ ups[u].from \in {"primary", "hedge"}
        /\ ups[u].from = "primary" => ret[u].res = ups[u].perr
        /\ ups[u].from = "hedge" => ups[u].hedged = 1 /\ ret[u].res = ups[u].herr
        /\ ups[u].won <=> ups[u].from = "hedge"

C13_FirstCompletedReturned ==
    \A u \in DOMAIN ups :
        (ups[u].main = "returned" /\ ups[u].hedged = 1) =>
            /\ ups[u].from = ups[u].first
            /\ ret[u].res = IF ups[u].first = "primary" THEN ups[u].perr
                                                        ELSE ups[u].herr

\* C14: in the race of the two attempts of an Upload, cancel ends an attempt that
\* is outstanding only after the other attempt has returned nil (or the caller's
\* own context was cancelled): an attempt that returns an error never cancels
\* the other one, and Upload returns an error only if neither attempt could
\* succeed (none returned nil and none was cut off by the other).
C14_OnlySuccessCancels ==
    \A u \in DOMAIN ups :
        /\ \A k \in ups[u].kills : k.err = "ok"
        /\ (ups[u].main = "returned" /\ ret[u].res # "ok" /\ ~ups[u].pctx) =>
                /\ ups[u].perr # "ok"
                /\ ups[u].herr # "ok"
                /\ ups[u].kills = {}

\* C20: for every Upload whose PutObject requests each return in the end, the
\* hedge goroutine comes to its end and cancel of the derived context is called,
\* on every path (the primary returns before the timer, the primary returns
\* after the hedge was issued, the hedge wins, the caller's context is
\* cancelled); and the send of the hedge goroutine on hedgeErr never has to
\* wait, whether or not the calling goroutine ever receives.
C20_HedgeEnds ==
    /\ [](\A u \in DOMAIN ups : ups[u].hedge = "send" => canSend(ups[u].chan))
    /\ \A u \in 1..MaxCalls :
            (u \in DOMAIN ups) ~>
                (u \in DOMAIN ups /\ Finished(u) /\ ups[u].cancels > 0)

\* An Upload that has ended with the hedge's result left in the channel: the
\* hedge goroutine sent it after the calling goroutine had gone, and ended.
C20_Witness ==
    \E u \in DOMAIN ups :
        /\ mode = "race"
        /\ Finished(u)
        /\ ups[u].hedged = 1
        /\ ups[u].chan # <<>>
        /\ ups[u].from = "primary"
        /\ ups[u].cancels > 0

-----------------------------------------------------------------------------
(* Further properties of the compactor *)

\* The removals of entries of a partial group (not of the group's directory).
PartialRemovals == {r \in hist.removals : Len(r.path) = Len(r.dir) + 2}

\* The path of the full tile next to the group that holds the partial at path.
FullOf(path) ==
    Append(SubSeq(path, 1, Len(path) - 2), TrimSuffixP(path[Len(path) - 1]))

\* C15: every removal of a partial file comes after a look, in the same pass and
\* for that file, at the full tile's own path that found a file of size above
\* zero there, and after the clearing of the partial's immutable flag. When the
\* look fails or finds a directory or an empty file, cleanDir returns an error:
\* that partial stays and nothing is removed in that log from then on.
C15_StatBeforeRemove ==
    /\ \A r \in PartialRemovals :
            \E o \in hist.overrides :
                /\ o.log = r.log /\ o.path = r.path
                /\ o.cleared
                /\ o.stat.done
                /\ o.stat.full = FullOf(r.path)
                /\ o.stat.node.kind = "file"
                /\ o.stat.node.size > 0
    /\ \A o \in hist.overrides :
            (~o.stat.done \/ o.stat.node.kind # "file" \/ o.stat.node.size = 0) =>
                /\ ~o.cleared
                /\ walkErr[o.log] = Err("override", o.path)
                /\ Exists(fs[o.log], o.path)
                /\ fs[o.log][o.path] = fs0[o.log][o.path]
                /\ \A r \in hist.removals : r.log = o.log => r.err = "none"

\* A pass that removed a partial next to its full tile and then came to a group
\* whose full tile is empty or a directory.
C15_Witness ==
    \E r \in PartialRemovals, o \in hist.overrides :
        /\ r.log = o.log
        /\ o.stat.done
        /\ o.stat.node.kind = "dir" \/ o.stat.node.size = 0
        /\ walkErr[o.log].kind = "override"

\* A pass that nothing disturbs (no interrupt, no error of the system), as a
\* function of the tree it starts from: the tree it leaves, whether it ended with
\* an error, and the number n of entries it removed.
RECURSIVE RunGroup(_, _, _, _, _, _)
RECURSIVE RunEntries(_, _, _, _, _, _, _)
RECURSIVE RunDir(_, _, _, _)
RECURSIVE RunLevels(_, _, _, _, _)

\* The loop of cleanDir over the entries partials[j..] of the group prefix/entry
\* and the removal of its directory.
RunGroup(t, prefix, entry, partials, j, n) ==
    LET group == Append(prefix, entry)
    IN  IF j > Len(partials)
        THEN IF CanRemove(t, group)
             THEN [fs |-> Remove(t, group), err |-> FALSE, n |-> n + 1]
             ELSE [fs |-> t, err |-> TRUE, n |-> n]
        ELSE LET name == Append(group, partials[j])
                 tl == ParseTilePath(name)
                 o == overrideImmutable(t, name)
             IN  IF ~tl.ok THEN [fs |-> t, err |-> TRUE, n |-> n]
                 ELSE IF notPartial(tl) THEN [fs |-> t, err |-> TRUE, n |-> n]
                 ELSE IF o.err # "none" THEN [fs |-> t, err |-> TRUE, n |-> n]
                 ELSE IF ~CanRemove(o.fs, name)
                 THEN [fs |-> o.fs, err |-> TRUE, n |-> n]
                 ELSE RunGroup(Remove(o.fs, name), prefix, entry, partials,
                               j + 1, n + 1)

\* The loop of cleanDir over the entries[i..] of the listing of prefix.
RunEntries(t, prefix, entries, names, i, size, n) ==
    IF i > Len(entries) THEN [fs |-> t, err |-> FALSE, n |-> n]
    ELSE LET entry == entries[i]
             name == Append(prefix, entry)
             next == RunEntries(t, prefix, entries, names, i + 1, size, n)
         IN  IF HasPrefixX(entry)
             THEN LET sub == RunDir(t, name, size, n)
                  IN  IF sub.err THEN sub
                      ELSE RunEntries(sub.fs, prefix, entries, names, i + 1,
                                      size, sub.n)
             ELSE IF ~HasSuffixP(entry) THEN next
             ELSE IF ~hasFull(names, entry) THEN next
             ELSE LET tl == ParseTilePath(Append(prefix, TrimSuffixP(entry)))
                      rd == ReadDir(t, name)
                  IN  IF ~tl.ok THEN [fs |-> t, err |-> TRUE, n |-> n]
                      ELSE IF EdgeSkip(tl, size) THEN next
                      ELSE IF rd.err THEN [fs |-> t, err |-> TRUE, n |-> n]
                      ELSE LET g == RunGroup(t, prefix, entry, rd.entries, 1, n)
                           IN  IF g.err THEN g
                               ELSE RunEntries(g.fs, prefix, entries, names,
                                               i + 1, size, g.n)

\* cleanDir(ctx, logger, root, prefix, size) with a context that is not done.
RunDir(t, prefix, size, n) ==
    LET b == cleanDirBegin(t, prefix, FALSE)
    IN  IF b.err # "none" THEN [fs |-> t, err |-> TRUE, n |-> n]
        ELSE RunEntries(t, prefix, b.frame.entries, b.frame.names, 1, size, n)

\* The loop of main over levels[k..]: it ends at the first error of cleanDir.
RunLevels(t, lvls, k, size, n) ==
    IF k > Len(lvls) THEN [fs |-> t, err |-> FALSE, n |-> n]
    ELSE LET r == RunDir(t, <<nTile, lvls[k]>>, size, n)
         IN  IF r.err THEN r ELSE RunLevels(r.fs, lvls, k + 1, size, r.n)

\* What main does for one log whose checkpoint states size.
RunLog(t, size) ==
    LET rd == ReadDir(t, <<nTile>>)
    IN  IF rd.err THEN [fs |-> t, err |-> FALSE, n |-> 0]
        ELSE RunLevels(t, rd.entries, 1, size, 0)

\* main is through with log l; nothing but the tree decided how the pass went.
PassOver(l) == li > l \/ (li = l /\ pc \in {"logs", "exited"})
Undisturbed(l) == walkErr[l].kind \notin {"ctx", "info", "remove"}

\* C16: compaction can be resumed and repeated. With the size of the log fixed
\* and nobody else at the directory, a pass that runs to its end from the tree
\* left by a pass that was cancelled or broken off at any point leaves the tree
\* that one pass without interruption leaves; and a pass after a pass that
\* ended without error removes nothing and returns no error.
C16_Resumable ==
    \A l \in LogIds :
        LET size == logs[l].N
            whole == RunLog(fs0[l], size)
            resumed == RunLog(fs[l], size)
            again == RunLog(whole.fs, size)
        IN  /\ resumed.fs = whole.fs
            /\ (l \in hist.walked /\ PassOver(l) /\ Undisturbed(l)) =>
                    /\ fs[l] = whole.fs
                    /\ whole.err <=> walkErr[l].kind # "none"
            /\ ~whole.err => (again.n = 0 /\ ~again.err /\ again.fs = whole.fs)

\* A pass broken off after it removed some but not all of what a whole pass
\* removes, from a tree that a whole pass goes through without an error.
C16_Witness ==
    \E l \in LogIds :
        LET whole == RunLog(fs0[l], logs[l].N)
        IN  /\ PassOver(l)
            /\ walkErr[l].kind \in {"ctx", "info", "remove"}
            /\ fs[l] # fs0[l]
            /\ fs[l] # whole.fs
            /\ ~whole.err
            /\ whole.n >= 3

-----------------------------------------------------------------------------
(* The right-edge test for every level, index and size *)

MaxLevel == 8

\* The numbers tried: the bytes j and j-1 taken from GateBytes and the other
\* bytes zero (the highest byte of an int64 is at most 127), and the largest
\* int64.
GateBytes == {0, 1, 255}

GateNum(j, a, b) ==
    [i \in 1..WordBytes |->
        IF i = j THEN (IF j = WordBytes /\ a > 127 THEN 127 ELSE a)
        ELSE IF i = j - 1 THEN b ELSE 0]

MaxInt64 == [i \in 1..WordBytes |-> IF i = WordBytes THEN 127 ELSE 255]

GateNums ==
    {GateNum(j, a, b) : j \in 1..WordBytes, a \in GateBytes, b \in GateBytes}
        \cup {MaxInt64}

\* The levels ParseTilePath gives: -1 for tile/data, the number for tile/<L>.
GateLevels == -1..MaxLevel

InitGate ==
    /\ NoCompactor
    /\ NoBackend
    /\ \E L \in GateLevels, N \in GateNums, mag \in GateNums, neg \in BOOLEAN :
          /\ neg => Norm(mag) # <<>>
          /\ gate = [NoGate EXCEPT !.L = L, !.N = N,
                                   !.size = [neg |-> neg, mag |-> mag]]

\* cleanDir at lines 143-144 for a tile of level gate.L and index gate.N.
gate_apply ==
    /\ ~gate.done
    /\ gate' = [gate EXCEPT !.done = TRUE,
                            !.res = edgeGate(gate.L, gate.N, gate.size)]
    /\ UNCHANGED <<varsC, varsB>>

NextGate == gate_apply

SpecGate == InitGate /\ [][NextGate]_vars

\* The leaves [N * 2^(H(L+1)), (N+1) * 2^(H(L+1))) of the tile all lie below
\* size, in numbers without bound; a tile of the data level counts as level 0.
RangeBelow(L, N, size) ==
    /\ ~size.neg
    /\ NumLeq(ShiftL(Succ(N), (TileHeight * (Max0(L) + 1)) \div 8), size.mag)

\* C17: for every level a path can parse to (data tiles as level 0), every
\* index N >= 0 and every size of the int64 range, the right-edge test in 64-bit
\* signed arithmetic has a value (tileSize is positive, nothing is divided by
\* zero) and skips the tile exactly when its leaves do not all lie below size.
C17_EdgeGateExact ==
    gate.done =>
        /\ ~gate.res.panics
        /\ gate.res.skip <=> ~RangeBelow(gate.L, gate.N, gate.size)

-----------------------------------------------------------------------------
(* The local backend with its calls running on *)

InitLocal == InitBackend /\ backend = "local"

NextLocal ==
    \/ local_Upload
    \/ local_compareFile
    \/ local_WriteFile
    \/ local_setImmutable
    \/ local_Fetch

\* A call that can take its next step takes it.
SpecLocal ==
    /\ InitLocal
    /\ [][NextLocal]_vars
    /\ WF_vars(local_compareFile)
    /\ WF_vars(local_WriteFile)
    /\ WF_vars(local_setImmutable)

\* C18: compareFile comes to an end for every content of the file and every
\* data, with a buffer of min(len(data), 16384) bytes, reads that return between
\* 0 and len(buffer) bytes, the end of the file reported only by a read that is
\* attempted, and a read into a buffer of length 0 returning 0 bytes and no
\* error; for data of length 0 as well.
C18_CompareTerminates ==
    \A c \in 1..MaxCalls :
        (c \in DOMAIN lcalls /\ lcalls[c].opened) ~>
            (c \in DOMAIN lcalls /\ lcalls[c].st = "done")

-----------------------------------------------------------------------------
(* The counters of the compactor *)

\* C19: in every state of a run, runs that end with an error of Info or of
\* Remove included, removedFiles is the number of partial files that were
\* removed from the tree and removedDirs the number of group directories that
\* were removed.
C19_CountersExact ==
    /\ removedFiles = Cardinality(PartialRemovals)
    /\ removedDirs = Cardinality(hist.removals \ PartialRemovals)

====
